---- MODULE Spec2Model ----
(***************************************************************************)
(* A model of archiver.Archiver (src/archiver.py): construction            *)
(* (__init__), the archive() run and the total_files / total_bytes         *)
(* properties, over a small filesystem.                                    *)
(*                                                                         *)
(* A file name is a pair <<stem, suffix>> (pathlib's stem and suffix), a   *)
(* path is the sequence of the names of its components, and the            *)
(* filesystem fs maps every existing absolute path to its kind and its     *)
(* st_size.  A callback value is one of a few Python values that differ    *)
(* in truthiness and in callability.  time.time() and the elapsed time     *)
(* handed to the completed callback are left out: nothing reads them.      *)
(***************************************************************************)
EXTENDS Integers, Sequences, FiniteSets

\* ------------------------------------------------------------------ bounds

\* Depth of the chain of nested directories below the source directory.
MaxDepth == 2
\* Largest st_size of a regular file.
MaxFileSize == 1
\* Number of archive() calls made on one Archiver.
MaxRuns == 2

\* ------------------------------------------------------------------ names and paths

W == <<"w", "">>
Data == <<"data", "">>
Sub == <<"sub", "">>
ATxt == <<"a", ".txt">>
FTxt == <<"f", ".txt">>
BTar == <<"b", ".tar">>
ArchiveTar == <<"archive", ".tar">>
NoDir == <<"nodir", "">>
DotDot == <<"..", "">>

\* The names in lexical order: sorted(os.listdir(...)) in tarfile.add.  rglob
\* lists a directory in the order the filesystem returns; the same order is
\* used for it here, one fixed order per directory.
NameOrder == <<ATxt, ArchiveTar, BTar, Data, FTxt, NoDir, Sub>>

Rank(name) == CHOOSE i \in 1..Len(NameOrder) : NameOrder[i] = name

\* The working directory of the process: relative paths resolve against it.
Cwd == <<W>>

Parent(p) == SubSeq(p, 1, Len(p) - 1)

\* Path.resolve() on a path without symbolic links: collapse ".." segments.
RECURSIVE Collapse(_, _)
Collapse(done, rest) ==
    IF rest = <<>> THEN done
    ELSE IF Head(rest) = DotDot
         THEN Collapse(IF done = <<>> THEN done ELSE Parent(done), Tail(rest))
         ELSE Collapse(Append(done, Head(rest)), Tail(rest))

\* Path(x).resolve(): absolute, relative segments collapsed.
Resolve(parts) == Collapse(Cwd, parts)

\* Path.with_suffix(suffix): the last component keeps its stem.
WithSuffix(p, suffix) == [p EXCEPT ![Len(p)] = <<p[Len(p)][1], suffix>>]

\* Path.relative_to(base): the components after base.
RelativeTo(p, base) == SubSeq(p, Len(base) + 1, Len(p))

\* ------------------------------------------------------------------ callback values

None == "None"

\* fn0, fn1: functions.  falsy_fn1: a callable object that is falsy (an instance
\* with __call__ and __len__() == 0).  zero: 0, "" or [].  text: a non-empty
\* string.
CtorCallbackValues == {None, "fn0", "zero", "text"}
CallCallbackValues == {None, "fn1", "falsy_fn1"}

\* bool(v)
Truthy(v) == v \in {"fn0", "fn1", "text"}
\* callable(v)
Callable(v) == v \in {"fn0", "fn1", "falsy_fn1"}

\* ------------------------------------------------------------------ filesystem

DirSize == 1

\* data, data/sub, data/sub/sub, ...
RECURSIVE DataDir(_)
DataDir(k) == IF k = 0 THEN Cwd \o <<Data>> ELSE Append(DataDir(k - 1), Sub)

\* The st_size of the file a.txt in the directory at depth k: sizes 0 to
\* MaxFileSize occur.
FileSize(k) == k % (MaxFileSize + 1)

\* A filesystem: w/ holding f.txt, b.tar and the directory data with a chain of
\* depth nested directories, each holding a.txt when withFiles.
MakeFs(depth, withFiles) ==
    LET dirs == {<<>>, Cwd} \cup {DataDir(k) : k \in 0..depth}
        files == {Cwd \o <<FTxt>>, Cwd \o <<BTar>>}
                 \cup (IF withFiles THEN {Append(DataDir(k), ATxt) : k \in 0..depth}
                       ELSE {})
    IN  [p \in dirs \cup files |->
            IF p \in dirs THEN [kind |-> "dir", size |-> DirSize]
            ELSE [kind |-> "file",
                  size |-> IF Parent(p) = Cwd THEN MaxFileSize
                           ELSE FileSize(Len(p) - Len(Cwd) - 2)]]

Exists(f, p) == p \in DOMAIN f
IsDir(f, p) == Exists(f, p) /\ f[p].kind = "dir"

Children(f, dir) == {p \in DOMAIN f : Len(p) = Len(dir) + 1 /\ Parent(p) = dir}

\* The elements of a set of sibling paths, by the rank of their names.
RECURSIVE Sorted(_)
Sorted(S) ==
    IF S = {} THEN <<>>
    ELSE LET m == CHOOSE p \in S :
                    \A q \in S : Rank(p[Len(p)]) <= Rank(q[Len(q)])
         IN  <<m>> \o Sorted(S \ {m})

RECURSIVE Flatten(_)
Flatten(ss) == IF ss = <<>> THEN <<>> ELSE Head(ss) \o Flatten(Tail(ss))

\* source.rglob("*"): the entries of a directory, then those of each of its
\* subdirectories, recursively.
RECURSIVE RGlob(_, _)
RGlob(f, dir) ==
    LET listing == Sorted(Children(f, dir))
        subdirs == SelectSeq(listing, LAMBDA p : f[p].kind = "dir")
    IN  listing \o Flatten([i \in 1..Len(subdirs) |-> RGlob(f, subdirs[i])])

RECURSIVE SumSizes(_, _)
SumSizes(f, ps) == IF ps = <<>> THEN 0 ELSE f[Head(ps)].size + SumSizes(f, Tail(ps))

\* ------------------------------------------------------------------ queries

\* Archiver.total_files
TotalFiles(f, source) == IF IsDir(f, source) THEN Len(RGlob(f, source)) ELSE 1

\* Archiver.total_bytes
TotalBytes(f, source) ==
    IF IsDir(f, source) THEN SumSizes(f, RGlob(f, source)) ELSE f[source].size

\* ------------------------------------------------------------------ the tar container

\* An open that creates the missing parent directories.
CanOpenMakingParents(f, dest) == dest # <<>> /\ ~IsDir(f, dest)

\* tarfile.open(destination, "w") succeeds when the parent of the destination
\* is a directory and the destination is not itself a directory.
CanOpen(f, dest) == dest # <<>> /\ IsDir(f, Parent(dest)) /\ ~IsDir(f, dest)

\* The filesystem after tarfile.open(destination, "w"): the file is created
\* or truncated.
Truncated(f, dest) ==
    [p \in DOMAIN f \cup {dest} |->
        IF p = dest THEN [kind |-> "file", size |-> 0] ELSE f[p]]

\* tar.add(name, arcname): the archive's own file is skipped, a directory is
\* added with everything below it (recursive=True is add's default), in
\* sorted(os.listdir(name)) order.
RECURSIVE TarAdd(_, _, _, _)
TarAdd(f, name, arcname, tarname) ==
    IF name = tarname THEN <<>>
    ELSE IF f[name].kind = "dir"
         THEN LET kids == Sorted(Children(f, name))
              IN  <<arcname>> \o
                  Flatten([i \in 1..Len(kids) |->
                      TarAdd(f, kids[i], Append(arcname, kids[i][Len(kids[i])]), tarname)])
         ELSE <<arcname>>

\* A container that is never closed (open and close paired by hand, the close
\* forgotten).
TarExitNeverCloses(t, raised) == t

\* A container closed on the normal path only (no guaranteed release).
TarExitLeaksOnError(t, raised) ==
    IF raised THEN t ELSE [t EXCEPT !.open = FALSE, !.finalized = TRUE]

\* Leaving the with block: the file is closed on every exit; the trailer is
\* written (the container finalized) on a normal exit only.
TarExit(t, raised) == [t EXCEPT !.open = FALSE, !.finalized = ~raised]

\* The size of the destination once it is closed, in blocks: one per member
\* header, one for the trailer.
ClosedSize(t) == Len(t.members) + (IF t.finalized THEN 1 ELSE 0)

Closed(f, dest, t) == [f EXCEPT ![dest].size = ClosedSize(t)]

\* ------------------------------------------------------------------ construction

StrSource(parts) == [type |-> "str", parts |-> parts]

\* The source arguments: the directory, two files, a missing path, and a value
\* that is neither a str nor a Path.
SourceInputs ==
    {StrSource(<<Data>>), StrSource(<<FTxt>>), StrSource(<<BTar>>),
     StrSource(<<NoDir>>), [type |-> "int", parts |-> <<>>]}

NoDestination == [type |-> "None", parts |-> <<>>]

\* The destination arguments: absent, beside the source (written with a ".."
\* segment), inside the source directory, and under a missing directory.
DestinationInputs ==
    {NoDestination, StrSource(<<Data, DotDot, ArchiveTar>>),
     StrSource(<<Data, ArchiveTar>>), StrSource(<<NoDir, ArchiveTar>>)}

\* self.source.with_suffix(".tar")
DefaultDestination(source) == WithSuffix(source, ".tar")

\* "if cb and not callable(cb): raise TypeError"
CallbackRejected(v) == Truthy(v) /\ ~Callable(v)

\* The exception __init__ raises, in the order of its checks, or "none".
CtorError(f, s, d, p, c) ==
    IF s.type \notin {"str", "Path"} THEN "TypeError"
    ELSE IF ~Exists(f, Resolve(s.parts)) THEN "FileNotFoundError"
    ELSE IF CallbackRejected(p) THEN "TypeError"
    ELSE IF CallbackRejected(c) THEN "TypeError"
    ELSE "none"

\* "progress_callback = progress_callback or self.progress_callback"
SelectCallback(arg, stored) == IF Truthy(arg) THEN arg ELSE stored

\* ------------------------------------------------------------------ state

VARIABLES
    fs,             \* the filesystem
    pc,             \* "new", "rejected", "idle", or the position inside archive()
    ctor,           \* the arguments __init__ was called with
    self,           \* the Archiver's attributes
    args,           \* the arguments of the current archive() call
    cb,             \* archive()'s local progress_callback and completed_callback
    total_files,    \* archive()'s locals
    total_bytes,
    files_added,
    bytes_written,
    todo,           \* what the rglob iteration has still to yield
    tar,            \* the open container, and the destination file's content
    progressLog,    \* the progress-callback invocations of the current run
    completedLog,   \* the completed-callback invocations of the current run
    result,         \* how the last operation ended
    runs            \* archive() calls made so far

vars == <<fs, pc, ctor, self, args, cb, total_files, total_bytes, files_added,
          bytes_written, todo, tar, progressLog, completedLog, result, runs>>

\* Counters kept from the previous run (kept on the instance, never reset).
StaleCount == files_added

\* "files_added = 0", "bytes_written = 0"
InitialCount == 0

NoArgs == [progress_callback |-> None, completed_callback |-> None]

Init ==
    /\ \E depth \in 0..MaxDepth, withFiles \in BOOLEAN :
          fs = MakeFs(depth, withFiles)
    /\ pc = "new"
    /\ ctor = [source |-> StrSource(<<>>), destination |-> NoDestination,
               progress_callback |-> None, completed_callback |-> None]
    /\ self = [source |-> <<>>, destination |-> <<>>,
               progress_callback |-> None, completed_callback |-> None]
    /\ args = NoArgs
    /\ cb = [progress |-> None, completed |-> None]
    /\ total_files = 0
    /\ total_bytes = 0
    /\ files_added = 0
    /\ bytes_written = 0
    /\ todo = <<>>
    /\ tar = [open |-> FALSE, finalized |-> FALSE, members |-> <<>>]
    /\ progressLog = <<>>
    /\ completedLog = <<>>
    /\ result = "none"
    /\ runs = 0

\* Archiver.__init__
Construct ==
    /\ pc = "new"
    /\ \E s \in SourceInputs, d \in DestinationInputs,
          p \in CtorCallbackValues, c \in CtorCallbackValues :
          LET err == CtorError(fs, s, d, p, c)
              source == Resolve(s.parts)
          IN  /\ ctor' = [source |-> s, destination |-> d,
                          progress_callback |-> p, completed_callback |-> c]
              /\ result' = err
              /\ IF err = "none"
                 THEN /\ pc' = "idle"
                      /\ self' = [source |-> source,
                                  destination |->
                                      IF d.type = "None" THEN DefaultDestination(source)
                                      ELSE Resolve(d.parts),
                                  progress_callback |-> p,
                                  completed_callback |-> c]
                 ELSE /\ pc' = "rejected"
                      /\ self' = self
    /\ UNCHANGED <<fs, args, cb, total_files, total_bytes, files_added,
                   bytes_written, todo, tar, progressLog, completedLog, runs>>

\* archive(), up to the with statement: the callbacks of this call, the
\* counting pass, the counters.
Archive ==
    /\ pc = "idle"
    /\ runs < MaxRuns
    /\ \E pa \in CallCallbackValues, ca \in CallCallbackValues :
          /\ args' = [progress_callback |-> pa, completed_callback |-> ca]
          /\ cb' = [progress |-> SelectCallback(pa, self.progress_callback),
                    completed |-> SelectCallback(ca, self.completed_callback)]
    /\ total_files' = TotalFiles(fs, self.source)
    /\ total_bytes' = TotalBytes(fs, self.source)
    /\ files_added' = InitialCount
    /\ bytes_written' = InitialCount
    /\ progressLog' = <<>>
    /\ completedLog' = <<>>
    /\ result' = "running"
    /\ runs' = runs + 1
    /\ pc' = "open"
    /\ UNCHANGED <<fs, ctor, self, todo, tar>>

\* "with tarfile.open(self.destination, "w") as tar", and the choice of the
\* branch.
Open ==
    /\ pc = "open"
    /\ IF CanOpen(fs, self.destination)
       THEN LET f == Truncated(fs, self.destination)
                listing == IF IsDir(f, self.source) THEN RGlob(f, self.source) ELSE <<>>
            IN  /\ fs' = f
                /\ tar' = [open |-> TRUE, finalized |-> FALSE, members |-> <<>>]
                /\ todo' = listing
                /\ pc' = IF ~IsDir(f, self.source) THEN "file"
                         ELSE IF listing = <<>> THEN "close" ELSE "loop"
                /\ UNCHANGED result
       ELSE /\ result' = "IOError:open"
            /\ pc' = "idle"
            /\ UNCHANGED <<fs, tar, todo>>
    /\ UNCHANGED <<ctor, self, args, cb, total_files, total_bytes, files_added,
                   bytes_written, progressLog, completedLog, runs>>

\* What file.stat().st_size may return: the destination is open for writing,
\* and what of it has reached the disk depends on buffering.
StatSizes(file) ==
    IF file = self.destination THEN {0, Len(tar.members)} ELSE {fs[file].size}

ProgressCall(added, written) ==
    [cb |-> cb.progress, files_added |-> added, bytes_written |-> written,
     total_files |-> total_files, total_bytes |-> total_bytes]

\* One entry: tar.add, the counters, the progress callback.  outcome is what
\* the environment does: the entry cannot be added, or the callback raises.
Step(file, arcname, added, written, outcome, nextPc, rest) ==
    LET t == [tar EXCEPT !.members =
                  @ \o TarAdd(fs, file, arcname, self.destination)]
    IN  IF outcome = "add_fails"
        THEN /\ tar' = TarExit(tar, TRUE)
             /\ fs' = Closed(fs, self.destination, tar')
             /\ result' = "IOError:add"
             /\ pc' = "idle"
             /\ UNCHANGED <<files_added, bytes_written, progressLog, todo>>
        ELSE /\ files_added' = added
             /\ bytes_written' = written
             /\ IF outcome = "callback_raises"
                THEN /\ tar' = TarExit(t, TRUE)
                     /\ fs' = Closed(fs, self.destination, tar')
                     /\ result' = "Raised:progress"
                     /\ pc' = "idle"
                     /\ UNCHANGED <<progressLog, todo>>
                ELSE /\ tar' = t
                     /\ progressLog' =
                            IF Truthy(cb.progress)
                            THEN Append(progressLog, ProgressCall(added, written))
                            ELSE progressLog
                     /\ todo' = rest
                     /\ pc' = nextPc
                     /\ UNCHANGED <<fs, result>>

\* What can happen to one entry: a callback raises only if it is called.  A
\* truthy progress callback is callable here: __init__ rejects the others.
Outcomes == {"ok", "add_fails"} \cup (IF Truthy(cb.progress) THEN {"callback_raises"} ELSE {})

\* The body of "for file in self.source.rglob("*")".
AddEntry ==
    /\ pc = "loop"
    /\ LET file == Head(todo)
       IN  \E outcome \in Outcomes, size \in StatSizes(file) :
              Step(file, RelativeTo(file, Parent(self.source)),
                   files_added + 1, bytes_written + size, outcome,
                   IF Tail(todo) = <<>> THEN "close" ELSE "loop", Tail(todo))
    /\ UNCHANGED <<ctor, self, args, cb, total_files, total_bytes, completedLog, runs>>

\* The else branch: the source is a single file.
AddFile ==
    /\ pc = "file"
    /\ \E outcome \in Outcomes :
          Step(self.source, <<self.source[Len(self.source)]>>,
               1, bytes_written, outcome, "close", todo)
    /\ UNCHANGED <<ctor, self, args, cb, total_files, total_bytes, completedLog, runs>>

\* The normal exit of the with block.
Close ==
    /\ pc = "close"
    /\ tar' = TarExit(tar, FALSE)
    /\ fs' = Closed(fs, self.destination, tar')
    /\ pc' = "complete"
    /\ UNCHANGED <<ctor, self, args, cb, total_files, total_bytes, files_added,
                   bytes_written, todo, progressLog, completedLog, result, runs>>

CompletedCall ==
    [cb |-> cb.completed, total_files |-> total_files, total_bytes |-> total_bytes,
     closed |-> ~tar.open, finalized |-> tar.finalized,
     progress_calls |-> Len(progressLog)]

\* "if completed_callback: completed_callback(total_files, total_bytes, end - start)"
Complete ==
    /\ pc = "complete"
    /\ \E raises \in (IF Truthy(cb.completed) THEN BOOLEAN ELSE {FALSE}) :
          IF raises
          THEN /\ result' = "Raised:completed"
               /\ UNCHANGED completedLog
          ELSE /\ result' = "ok"
               /\ completedLog' =
                      IF Truthy(cb.completed) THEN Append(completedLog, CompletedCall)
                      ELSE completedLog
    /\ pc' = "idle"
    /\ UNCHANGED <<fs, ctor, self, args, cb, total_files, total_bytes, files_added,
                   bytes_written, todo, tar, progressLog, runs>>

Next ==
    \/ Construct
    \/ Archive
    \/ Open
    \/ AddEntry
    \/ AddFile
    \/ Close
    \/ Complete

Spec == Init /\ [][Next]_vars

\* ------------------------------------------------------------------ properties

Constructed == pc \notin {"new", "rejected"}

\* archive() has returned without raising.
RunOk == pc = "idle" /\ result = "ok"

SourceIsDir == IsDir(fs, self.source)

Count(seq, x) == Cardinality({i \in 1..Len(seq) : seq[i] = x})

\* C1: after a successful archive() of a directory source, whatever destination
\* the constructor accepted, the progress callback was invoked total_files
\* times, total_files being the counting pass's value, the one every progress
\* call and the completion call carry.
C1_ProgressCallsEqualTotalFiles ==
    (RunOk /\ SourceIsDir /\ Truthy(cb.progress)) =>
        /\ Len(progressLog) = total_files
        /\ \A i \in 1..Len(progressLog) : progressLog[i].total_files = total_files
        /\ \A i \in 1..Len(completedLog) : completedLog[i].total_files = total_files

\* C2: after a successful archive() of a directory source, every enumerated
\* entry is in the archive exactly once, and the archive holds files_added
\* entries.
C2_EachEntryWrittenOnce ==
    (RunOk /\ SourceIsDir) =>
        /\ Len(tar.members) = files_added
        /\ LET listing == RGlob(fs, self.source)
           IN  \A i \in 1..Len(listing) :
                  Count(tar.members, RelativeTo(listing[i], Parent(self.source))) = 1

\* C3: the completion callback is invoked at most once in a run, with the
\* container closed and finalized, after every progress call of the run and as
\* the last thing archive() does; a run that completes without error with a
\* completion callback to call invokes it exactly once.
C3_CompletionLastAndOnce ==
    /\ Len(completedLog) <= 1
    /\ \A i \in 1..Len(completedLog) :
          /\ completedLog[i].closed
          /\ completedLog[i].finalized
          /\ completedLog[i].progress_calls = Len(progressLog)
          /\ RunOk
          /\ ~tar.open
    /\ (RunOk /\ Truthy(cb.completed)) => Len(completedLog) = 1
    /\ tar.open => completedLog = <<>>

\* A successful run on a directory with several entries, with both callbacks
\* called.
C3_Witness ==
    /\ RunOk
    /\ Len(completedLog) = 1
    /\ Len(progressLog) >= 2
    /\ tar.finalized

\* The write pass failed: an entry could not be added, or the progress
\* callback raised.
WritePassFailed == result \in {"IOError:add", "Raised:progress"}

\* C4: when adding an entry fails or the progress callback raises, the
\* container is closed, archive() has returned with the error, the completion
\* callback was not invoked, nothing was written or reported after the
\* failure, and the partial destination file is still on disk.
C4_FailureClosesAndAborts ==
    WritePassFailed =>
        /\ pc = "idle"
        /\ ~tar.open
        /\ ~tar.finalized
        /\ completedLog = <<>>
        /\ Exists(fs, self.destination)
        /\ fs[self.destination].kind = "file"
        /\ Truthy(cb.progress) =>
              Len(progressLog) = files_added - (IF result = "Raised:progress" THEN 1 ELSE 0)
        /\ SourceIsDir =>
              files_added + Len(todo) =
                  Len(RGlob(fs, self.source)) + (IF result = "Raised:progress" THEN 1 ELSE 0)

\* The third entry of a directory could not be added, after two were written
\* and reported.
C4_Witness ==
    /\ result = "IOError:add"
    /\ files_added = 2
    /\ Len(progressLog) = 2
    /\ Len(todo) >= 2
    /\ Len(tar.members) >= 2

\* A callback value that is supplied (not None) and cannot be called.
NotInvocable(v) == v # None /\ ~Callable(v)

\* C5: with a valid source, construction fails with TypeError exactly when a
\* supplied callback value is not None and not invocable.
C5_NonInvocableCallbackRejected ==
    (pc \in {"idle", "rejected"} /\ runs = 0
        /\ ctor.source.type = "str" /\ Exists(fs, Resolve(ctor.source.parts))) =>
        ((NotInvocable(ctor.progress_callback) \/ NotInvocable(ctor.completed_callback))
            <=> (pc = "rejected" /\ result = "TypeError"))

\* The callback the specification selects: the call's argument when it is not
\* None, the stored one otherwise.
ArgumentElseStored(arg, stored) == IF arg # None THEN arg ELSE stored

\* C6: in every run each callback in use is the call's argument when that is
\* not None and the construction-time callback otherwise, no callback is
\* called when both are None, and the stored callbacks stay those given to
\* the constructor.
C6_CallArgumentWins ==
    (Constructed /\ runs > 0) =>
        /\ cb.progress = ArgumentElseStored(args.progress_callback, self.progress_callback)
        /\ cb.completed = ArgumentElseStored(args.completed_callback, self.completed_callback)
        /\ \A i \in 1..Len(progressLog) : progressLog[i].cb = cb.progress
        /\ \A i \in 1..Len(completedLog) : completedLog[i].cb = cb.completed
        /\ (args.progress_callback = None /\ self.progress_callback = None) =>
              progressLog = <<>>
        /\ (args.completed_callback = None /\ self.completed_callback = None) =>
              completedLog = <<>>
        /\ self.progress_callback = ctor.progress_callback
        /\ self.completed_callback = ctor.completed_callback

\* C7: a successful archive() of a single-file source leaves one entry in the
\* archive, calls the progress callback once, with (1, 0, 1), and reports
\* total_files = 1 to the completion callback.
C7_SingleFile ==
    (RunOk /\ ~SourceIsDir) =>
        /\ Len(tar.members) = 1
        /\ Truthy(cb.progress) =>
              /\ Len(progressLog) = 1
              /\ progressLog[1].files_added = 1
              /\ progressLog[1].bytes_written = 0
              /\ progressLog[1].total_files = 1
        /\ Truthy(cb.completed) =>
              /\ Len(completedLog) = 1
              /\ completedLog[1].total_files = 1

\* The parent directory of the destination does not exist.
MissingParent == ~IsDir(fs, Parent(self.destination))

\* C8: construction with an existing source and a destination under a missing
\* directory succeeds (a rejection is due to the source or to a callback) and
\* writes nothing; archive() then fails with IOError at the open, with no entry
\* written, no destination created and no callback called.
C8_MissingParentFailsAtOpen ==
    /\ [](pc = "rejected" =>
            \/ ctor.source.type # "str"
            \/ ~Exists(fs, Resolve(ctor.source.parts))
            \/ CallbackRejected(ctor.progress_callback)
            \/ CallbackRejected(ctor.completed_callback))
    /\ []((Constructed /\ MissingParent) =>
            /\ pc \in {"idle", "open"}
            /\ (pc = "idle" /\ runs > 0) => result = "IOError:open"
            /\ ~Exists(fs, self.destination)
            /\ ~tar.open
            /\ tar.members = <<>>
            /\ progressLog = <<>>
            /\ completedLog = <<>>)
    /\ [][pc = "new" => fs' = fs]_vars

\* archive() was called on an Archiver whose destination lies under a missing
\* directory, with callbacks to call, and has failed at the open.
C8_Witness ==
    /\ Constructed
    /\ MissingParent
    /\ result = "IOError:open"
    /\ Truthy(cb.progress)
    /\ Truthy(cb.completed)
    /\ runs = 2

\* C9: the k-th progress call of a run carries files_added = k and at least
\* the bytes_written of the call before it, in the first run and in every
\* later one.
C9_CountersGrowAndReset ==
    \A k \in 1..Len(progressLog) :
        /\ progressLog[k].files_added = k
        /\ progressLog[k].bytes_written >= 0
        /\ k > 1 => progressLog[k].bytes_written >= progressLog[k - 1].bytes_written

\* The second run on an Archiver, some calls into it, with bytes_written
\* having grown.
C9_Witness ==
    /\ runs = 2
    /\ Len(progressLog) >= 3
    /\ progressLog[3].bytes_written > progressLog[1].bytes_written

\* C10: an Archiver constructed without a destination has a destination other
\* than its source, so archive() never has its own source open for writing.
C10_DefaultDestinationDiffers ==
    (Constructed /\ ctor.destination = NoDestination) =>
        /\ self.destination # self.source
        /\ tar.open => self.destination # self.source

====
